---- MODULE Spec2Model ----
(***************************************************************************)
(* Model of syn-solidity's function attribute set                          *)
(* (attribute/function.rs) and punctuated declaration lists                *)
(* (variable/list.rs).                                                     *)
(*                                                                         *)
(* A token stream is a sequence of token trees, as syn's cursor sees it:   *)
(* an identifier (keywords are identifiers), a parenthesised group, a      *)
(* braced group, a `;` and a literal.  A source location (Span) is the     *)
(* index of a token in the stream.                                         *)
(***************************************************************************)
EXTENDS Integers, Sequences, FiniteSets, TLC

\* ---------------------------------------------------------------- bounds
MaxTokens == 3
MaxListTokens == 4
MaxItems == 2

\* ------------------------------------------------------------ vocabulary
None == "None"

Visibilities == {"public", "external", "internal", "private"}
Mutabilities == {"pure", "view", "payable"}
Markers == {"virtual", "override", "immutable"}
Names == {"a", "b"}

Tok(k, v, p) == [k |-> k, v |-> v, p |-> p]
EOF == Tok("eof", "", <<>>)
Brace == Tok("brace", "{", <<>>)
Semi == Tok("punct", ";", <<>>)
Lit == Tok("lit", "1", <<>>)
Returns == Tok("ident", "returns", <<>>)

ParenPayloads == {<<>>, <<"a">>, <<"a", "b">>}

AttrTokens ==
    {Tok("ident", v, <<>>) : v \in Visibilities \cup Mutabilities \cup Markers \cup Names}
    \cup {Tok("paren", "(", p) : p \in ParenPayloads}
    \cup {Returns, Semi, Brace, Lit}

RECURSIVE SeqsUpTo(_, _)
SeqsUpTo(S, n) ==
    IF n = 0 THEN {<<>>}
    ELSE LET prev == SeqsUpTo(S, n - 1)
         IN prev \cup {Append(s, x) : s \in {t \in prev : Len(t) = n - 1}, x \in S}

AttrInputs == SeqsUpTo(AttrTokens, MaxTokens)

\* ------------------------------------------------------------ attributes
Attr(kind, val, paren, paths, span) ==
    [kind |-> kind, val |-> val, paren |-> paren, paths |-> paths, span |-> span]
NoAttr == Attr("none", "", FALSE, <<>>, 0)

Diag(loc, msg) == [loc |-> loc, msg |-> msg]

VARIABLES pc, op, input, pos, attributes, status, errs, lkind, linput, list, out

vars == <<pc, op, input, pos, attributes, status, errs, lkind, linput, list, out>>

peek(in, p) == IF p <= Len(in) THEN in[p] ELSE EOF

VisibilityPeek(tok) == tok.k = "ident" /\ tok.v \in Visibilities
MutabilityPeek(tok) == tok.k = "ident" /\ tok.v \in Mutabilities
IdentPeekAny(tok) == tok.k = "ident"

\* Override::parse: the keyword, then a parenthesised path list if one follows
OverrideParse(in, p) ==
    IF peek(in, p + 1).k = "paren"
    THEN [attr |-> Attr("Override", "override", TRUE, peek(in, p + 1).p, p), pos |-> p + 2]
    ELSE [attr |-> Attr("Override", "override", FALSE, <<>>, p), pos |-> p + 1]

\* Modifier::parse: the name path, then a parenthesised argument list if one follows
ModifierParse(in, p) ==
    IF peek(in, p + 1).k = "paren"
    THEN [attr |-> Attr("Modifier", peek(in, p).v, TRUE, peek(in, p + 1).p, p), pos |-> p + 2]
    ELSE [attr |-> Attr("Modifier", peek(in, p).v, FALSE, <<>>, p), pos |-> p + 1]

\* Modifier's PartialEq / Hash: by name path
ModifierEq(a, b) == a.val = b.val

ParseOk(attr, p) == [ok |-> TRUE, attr |-> attr, pos |-> p, errs |-> <<>>]
ParseErr(p, msg) == [ok |-> FALSE, attr |-> NoAttr, pos |-> p, errs |-> <<Diag(p, msg)>>]

BodyMsg == "functions cannot have an implementation"
LookaheadMsg == "expected one of: visibility, mutability, virtual, override, immutable, identifier"

\* FunctionAttribute::parse without the special case for `{`
FunctionAttribute_parse_NoBraceCase(in, p) ==
    LET tok == peek(in, p) IN
    IF VisibilityPeek(tok) THEN ParseOk(Attr("Visibility", tok.v, FALSE, <<>>, p), p + 1)
    ELSE IF MutabilityPeek(tok) THEN ParseOk(Attr("Mutability", tok.v, FALSE, <<>>, p), p + 1)
    ELSE IF tok = Tok("ident", "virtual", <<>>)
        THEN ParseOk(Attr("Virtual", "virtual", FALSE, <<>>, p), p + 1)
    ELSE IF tok = Tok("ident", "override", <<>>)
        THEN ParseOk(OverrideParse(in, p).attr, OverrideParse(in, p).pos)
    ELSE IF tok = Tok("ident", "immutable", <<>>)
        THEN ParseOk(Attr("Immutable", "immutable", FALSE, <<>>, p), p + 1)
    ELSE IF tok # Returns /\ IdentPeekAny(tok)
        THEN ParseOk(ModifierParse(in, p).attr, ModifierParse(in, p).pos)
    ELSE ParseErr(p, LookaheadMsg)

\* impl Parse for FunctionAttribute
FunctionAttribute_parse(in, p) ==
    LET tok == peek(in, p) IN
    IF VisibilityPeek(tok) THEN ParseOk(Attr("Visibility", tok.v, FALSE, <<>>, p), p + 1)
    ELSE IF MutabilityPeek(tok) THEN ParseOk(Attr("Mutability", tok.v, FALSE, <<>>, p), p + 1)
    ELSE IF tok = Tok("ident", "virtual", <<>>)
        THEN ParseOk(Attr("Virtual", "virtual", FALSE, <<>>, p), p + 1)
    ELSE IF tok = Tok("ident", "override", <<>>)
        THEN ParseOk(OverrideParse(in, p).attr, OverrideParse(in, p).pos)
    ELSE IF tok = Tok("ident", "immutable", <<>>)
        THEN ParseOk(Attr("Immutable", "immutable", FALSE, <<>>, p), p + 1)
    ELSE IF tok # Returns /\ IdentPeekAny(tok)
        THEN ParseOk(ModifierParse(in, p).attr, ModifierParse(in, p).pos)
    ELSE IF tok = Brace THEN ParseErr(p, BodyMsg)
    ELSE ParseErr(p, LookaheadMsg)

\* eq comparing the keyword or name of every case
eq_Structural(a, b) == a.kind = b.kind /\ a.val = b.val

\* eq comparing the discriminant only, modifiers included
eq_DiscriminantOnly(a, b) == a.kind = b.kind

\* impl PartialEq for FunctionAttribute (Hash agrees with it)
eq(a, b) ==
    IF a.kind = "Modifier" /\ b.kind = "Modifier" THEN ModifierEq(a, b)
    ELSE a.kind = b.kind

\* HashSet::get under the Eq/Hash above
get(set, attr) ==
    IF \E prev \in set : eq(prev, attr)
    THEN CHOOSE prev \in set : eq(prev, attr)
    ELSE NoAttr

\* the while condition without the `returns` test
Terminated_NoReturns(in, p) ==
    \/ p > Len(in)
    \/ peek(in, p) = Semi
    \/ peek(in, p) = Brace

\* the while condition of FunctionAttributes::parse, negated
Terminated(in, p) ==
    \/ p > Len(in)
    \/ peek(in, p) = Returns
    \/ peek(in, p) = Semi
    \/ peek(in, p) = Brace

\* is_override taking an override without explicit targets as matching any path
is_override_Wildcard(attr, path) ==
    IF attr.kind = "Override"
    THEN IF path # None
         THEN Len(attr.paths) = 0 \/ \E i \in 1..Len(attr.paths) : attr.paths[i] = path
         ELSE TRUE
    ELSE FALSE

is_override(attr, path) ==
    IF attr.kind = "Override"
    THEN IF path # None THEN \E i \in 1..Len(attr.paths) : attr.paths[i] = path ELSE TRUE
    ELSE FALSE

is_modifier(attr, path) ==
    IF attr.kind = "Modifier"
    THEN IF path # None THEN attr.val = path ELSE TRUE
    ELSE FALSE

has_override(set, path) == \E attr \in set : is_override(attr, path)
has_modifier(set, path) == \E attr \in set : is_modifier(attr, path)

\* From building the immutable keyword of a constant at a fresh location
From_FreshSpan(value) ==
    IF value.kind = "Visibility" THEN Attr("Visibility", value.val, FALSE, <<>>, value.span)
    ELSE IF value.kind = "Constant" THEN Attr("Immutable", "immutable", FALSE, <<>>, 0)
    ELSE IF value.kind = "Immutable" THEN Attr("Immutable", "immutable", FALSE, <<>>, value.span)
    ELSE Attr("Override", "override", value.paren, value.paths, value.span)

\* impl From<VariableAttribute> for FunctionAttribute
From(value) ==
    IF value.kind = "Visibility" THEN Attr("Visibility", value.val, FALSE, <<>>, value.span)
    ELSE IF value.kind = "Constant" THEN Attr("Immutable", "immutable", FALSE, <<>>, value.span)
    ELSE IF value.kind = "Immutable" THEN Attr("Immutable", "immutable", FALSE, <<>>, value.span)
    ELSE Attr("Override", "override", value.paren, value.paths, value.span)

VariableAttributes ==
    {Attr("Visibility", v, FALSE, <<>>, s) : v \in Visibilities, s \in 1..MaxTokens}
    \cup {Attr(k, "constant", FALSE, <<>>, s) : k \in {"Constant"}, s \in 1..MaxTokens}
    \cup {Attr(k, "immutable", FALSE, <<>>, s) : k \in {"Immutable"}, s \in 1..MaxTokens}
    \cup {Attr("Override", "override", FALSE, <<>>, s) : s \in 1..MaxTokens}
    \cup {Attr("Override", "override", TRUE, p, s) : p \in ParenPayloads, s \in 1..MaxTokens}


\* ------------------------------------------------------------------ lists
\* a Type: an elementary type by name, or a tuple of types
Ty(name, elems) == [name |-> name, elems |-> elems]
Uint256 == Ty("uint256", <<>>)
Bool == Ty("bool", <<>>)
Tuple == Ty("tuple", <<Uint256, Bool>>)
NoType == Ty("none", <<>>)
Types == {Uint256, Bool, Tuple}

\* strings that are built or compared byte by byte are sequences of characters
Chars(name) ==
    IF name = "uint256" THEN <<"u", "i", "n", "t", "2", "5", "6">>
    ELSE IF name = "bool" THEN <<"b", "o", "o", "l">>
    ELSE <<>>

\* a list token: one whole declaration (type and optional name), `,`, `;`,
\* or a token no declaration starts with
LTok(k, ty, name) == [k |-> k, ty |-> ty, name |-> name]
Comma == LTok("comma", NoType, None)
LSemi == LTok("semi", NoType, None)
Junk == LTok("junk", NoType, None)
DeclTokens == {LTok("decl", ty, n) : ty \in Types, n \in {None, "a"}}
ListTokens == DeclTokens \cup {Comma, LSemi, Junk}
ListInputs == SeqsUpTo(ListTokens, MaxListTokens)

VarDecl(ty, name) == [ty |-> ty, name |-> name]
Declarations == {VarDecl(ty, n) : ty \in Types, n \in {None, "a"}}

\* VariableDeclaration::parse accepts a type with an optional name,
\* VariableDeclaration::parse_for_struct requires the name
DeclParses(tok, forStruct) ==
    tok.k = "decl" /\ (forStruct => tok.name # None)

Punct(items, trailing) == [items |-> items, trailing |-> trailing]
PtOk(items, trailing) == [ok |-> TRUE, this |-> Punct(items, trailing), at |-> 0]
PtErr(p) == [ok |-> FALSE, this |-> Punct(<<>>, FALSE), at |-> p]

\* Punctuated::parse_terminated_with: value, separator, value, ... until the
\* stream is empty
RECURSIVE parse_terminated(_, _, _, _, _)
parse_terminated(in, forStruct, sep, p, items) ==
    IF p > Len(in) THEN PtOk(items, Len(items) > 0)
    ELSE IF ~DeclParses(in[p], forStruct) THEN PtErr(p)
    ELSE LET items2 == Append(items, VarDecl(in[p].ty, in[p].name)) IN
         IF p + 1 > Len(in) THEN PtOk(items2, FALSE)
         ELSE IF in[p + 1].k # sep THEN PtErr(p + 1)
         ELSE parse_terminated(in, forStruct, sep, p + 2, items2)

ListResult(st, l, e) == [status |-> st, list |-> l, errs |-> e]

\* ParameterList::parse rejecting a trailing comma
ParameterList_parse_NoTrailing(in) ==
    LET r == parse_terminated(in, FALSE, "comma", 1, <<>>) IN
    IF r.ok /\ ~r.this.trailing THEN ListResult("ok", r.this, <<>>)
    ELSE ListResult("err", Punct(<<>>, FALSE), <<Diag(r.at, "unexpected token")>>)

\* impl Parse for ParameterList
ParameterList_parse(in) ==
    LET r == parse_terminated(in, FALSE, "comma", 1, <<>>) IN
    IF r.ok THEN ListResult("ok", r.this, <<>>)
    ELSE ListResult("err", Punct(<<>>, FALSE), <<Diag(r.at, "unexpected token")>>)

EmptyMsg == "defining empty structs is disallowed"
TrailingMsg == "expected trailing semicolon"

\* FieldList::parse testing the trailing separator before emptiness
FieldList_parse_Swapped(in) ==
    LET r == parse_terminated(in, TRUE, "semi", 1, <<>>) IN
    IF ~r.ok THEN ListResult("err", Punct(<<>>, FALSE), <<Diag(r.at, "unexpected token")>>)
    ELSE IF ~r.this.trailing
        THEN ListResult("err", Punct(<<>>, FALSE), <<Diag(Len(in) + 1, TrailingMsg)>>)
    ELSE IF Len(r.this.items) = 0
        THEN ListResult("err", Punct(<<>>, FALSE), <<Diag(Len(in) + 1, EmptyMsg)>>)
    ELSE ListResult("ok", r.this, <<>>)

\* FieldList::parse without the trailing separator test
FieldList_parse_NoTrailingCheck(in) ==
    LET r == parse_terminated(in, TRUE, "semi", 1, <<>>) IN
    IF ~r.ok THEN ListResult("err", Punct(<<>>, FALSE), <<Diag(r.at, "unexpected token")>>)
    ELSE IF Len(r.this.items) = 0
        THEN ListResult("err", Punct(<<>>, FALSE), <<Diag(Len(in) + 1, EmptyMsg)>>)
    ELSE ListResult("ok", r.this, <<>>)

\* impl Parse for FieldList
FieldList_parse(in) ==
    LET r == parse_terminated(in, TRUE, "semi", 1, <<>>) IN
    IF ~r.ok THEN ListResult("err", Punct(<<>>, FALSE), <<Diag(r.at, "unexpected token")>>)
    ELSE IF Len(r.this.items) = 0
        THEN ListResult("err", Punct(<<>>, FALSE), <<Diag(Len(in) + 1, EmptyMsg)>>)
    ELSE IF ~r.this.trailing
        THEN ListResult("err", Punct(<<>>, FALSE), <<Diag(Len(in) + 1, TrailingMsg)>>)
    ELSE ListResult("ok", r.this, <<>>)

\* Parameters::new / Default
new == Punct(<<>>, FALSE)

\* Punctuated::push
push(l, v) == Punct(Append(l.items, v), FALSE)

\* Punctuated::pop
pop(l) ==
    IF Len(l.items) = 0 THEN l
    ELSE Punct(SubSeq(l.items, 1, Len(l.items) - 1), Len(l.items) > 1)

\* Punctuated::clear
clear(l) == Punct(<<>>, FALSE)

\* Parameters::from_iter: Punctuated::from_iter pushes every value
RECURSIVE from_iter(_)
from_iter(s) ==
    IF Len(s) = 0 THEN new
    ELSE push(from_iter(SubSeq(s, 1, Len(s) - 1)), s[Len(s)])

\* Display of a Type: its canonical text, tuples rendered recursively
RECURSIVE TypeText(_)
RECURSIVE TupleText(_, _)
TypeText(ty) ==
    IF ty.name = "tuple" THEN <<"(">> \o TupleText(ty.elems, 1) \o <<")">>
    ELSE Chars(ty.name)
TupleText(elems, i) ==
    IF i > Len(elems) THEN <<>>
    ELSE (IF i > 1 THEN <<",">> ELSE <<>>) \o TypeText(elems[i]) \o TupleText(elems, i + 1)

\* VariableDeclaration::fmt_eip712 appends the canonical type text
fmt_eip712(field, f) == f \o TypeText(field.ty)

\* the for loop writing the comma after every field instead of between fields
RECURSIVE SigLoop_CommaAfter(_, _, _)
SigLoop_CommaAfter(items, i, name) ==
    IF i > Len(items) THEN name
    ELSE SigLoop_CommaAfter(items, i + 1, Append(fmt_eip712(items[i], name), ","))

\* the for loop of eip712_signature from index i on
RECURSIVE SigLoop(_, _, _)
SigLoop(items, i, name) ==
    IF i > Len(items) THEN name
    ELSE SigLoop(items, i + 1,
                 fmt_eip712(items[i], IF i > 1 THEN Append(name, ",") ELSE name))

eip712_signature_CommaAfter(l, name) ==
    Append(SigLoop_CommaAfter(l.items, 1, Append(name, "(")), ")")

\* Parameters::eip712_signature
eip712_signature(l, name) ==
    Append(SigLoop(l.items, 1, Append(name, "(")), ")")

SigNames == {<<>>, <<"f">>, <<"T", "x">>}

NoOut == [fn |-> "none"]
NoList == Punct(<<>>, FALSE)

Init ==
    /\ pc = "idle"
    /\ op = "none"
    /\ input = <<>>
    /\ pos = 1
    /\ attributes = {}
    /\ status = "none"
    /\ errs = <<>>
    /\ lkind = "none"
    /\ linput = <<>>
    /\ list = NoList
    /\ out = NoOut

\* a caller hands a token stream to FunctionAttributes::parse
CallAttributesParse ==
    /\ pc = "idle"
    /\ \E in \in AttrInputs : input' = in
    /\ pc' = "loop"
    /\ op' = "FunctionAttributes::parse"
    /\ pos' = 1
    /\ attributes' = {}
    /\ UNCHANGED <<status, errs, lkind, linput, list, out>>

\* one evaluation of the while condition and, if it holds, of the loop body
ParseLoop ==
    /\ pc = "loop"
    /\ IF Terminated(input, pos)
       THEN /\ pc' = "done"
            /\ status' = "ok"
            /\ UNCHANGED <<pos, attributes, errs>>
       ELSE LET r == FunctionAttribute_parse(input, pos) IN
            IF ~r.ok
            THEN /\ pc' = "done"
                 /\ status' = "err"
                 /\ errs' = r.errs
                 /\ UNCHANGED <<pos, attributes>>
            ELSE LET prev == get(attributes, r.attr) IN
                 IF prev # NoAttr
                 THEN /\ pc' = "done"
                      /\ status' = "err"
                      /\ errs' = <<Diag(r.attr.span, "duplicate attribute"),
                                   Diag(prev.span, "previous declaration is here")>>
                      /\ pos' = r.pos
                      /\ UNCHANGED attributes
                 ELSE /\ attributes' = attributes \cup {r.attr}
                      /\ pos' = r.pos
                      /\ UNCHANGED <<pc, status, errs>>
    /\ UNCHANGED <<op, input, lkind, linput, list, out>>

\* a caller hands a token stream to FunctionAttribute::parse directly
CallAttributeParse ==
    /\ pc = "idle"
    /\ \E in \in AttrInputs :
         LET r == FunctionAttribute_parse(in, 1) IN
         /\ input' = in
         /\ status' = IF r.ok THEN "ok" ELSE "err"
         /\ errs' = r.errs
         /\ pos' = IF r.ok THEN r.pos ELSE 1
         /\ out' = [fn |-> "FunctionAttribute::parse", val |-> r.attr]
    /\ pc' = "done"
    /\ op' = "FunctionAttribute::parse"
    /\ UNCHANGED <<attributes, lkind, linput, list>>

HasOverride ==
    /\ pc = "done" /\ op = "FunctionAttributes::parse" /\ status = "ok"
    /\ \E path \in Names \cup {None} :
         out' = [fn |-> "has_override", path |-> path, val |-> has_override(attributes, path)]
    /\ UNCHANGED <<pc, op, input, pos, attributes, status, errs, lkind, linput, list>>

HasModifier ==
    /\ pc = "done" /\ op = "FunctionAttributes::parse" /\ status = "ok"
    /\ \E path \in Names \cup {None} :
         out' = [fn |-> "has_modifier", path |-> path, val |-> has_modifier(attributes, path)]
    /\ UNCHANGED <<pc, op, input, pos, attributes, status, errs, lkind, linput, list>>

Convert ==
    /\ pc = "idle"
    /\ \E value \in VariableAttributes :
         out' = [fn |-> "from", arg |-> value, val |-> From(value)]
    /\ pc' = "done"
    /\ op' = "From"
    /\ UNCHANGED <<input, pos, attributes, status, errs, lkind, linput, list>>


ListValue == pc = "done" /\ status = "ok" /\ lkind \in {"comma", "semi"}

CallParameterListParse ==
    /\ pc = "idle"
    /\ \E in \in ListInputs :
         LET r == ParameterList_parse(in) IN
         /\ linput' = in
         /\ status' = r.status
         /\ list' = r.list
         /\ errs' = r.errs
    /\ pc' = "done"
    /\ op' = "ParameterList::parse"
    /\ lkind' = "comma"
    /\ UNCHANGED <<input, pos, attributes, out>>

CallFieldListParse ==
    /\ pc = "idle"
    /\ \E in \in ListInputs :
         LET r == FieldList_parse(in) IN
         /\ linput' = in
         /\ status' = r.status
         /\ list' = r.list
         /\ errs' = r.errs
    /\ pc' = "done"
    /\ op' = "FieldList::parse"
    /\ lkind' = "semi"
    /\ UNCHANGED <<input, pos, attributes, out>>

\* Parameters::new() or Parameters::default(), for either separator
New ==
    /\ pc = "idle"
    /\ \E k \in {"comma", "semi"} : lkind' = k
    /\ list' = new
    /\ pc' = "done"
    /\ op' = "new"
    /\ status' = "ok"
    /\ UNCHANGED <<input, pos, attributes, errs, linput, out>>

FromIter ==
    /\ pc = "idle"
    /\ \E k \in {"comma", "semi"} : lkind' = k
    /\ \E s \in SeqsUpTo(Declarations, MaxItems) : list' = from_iter(s)
    /\ pc' = "done"
    /\ op' = "from_iter"
    /\ status' = "ok"
    /\ UNCHANGED <<input, pos, attributes, errs, linput, out>>

\* mutation through DerefMut; the token stream of an earlier parse is gone
Push ==
    /\ ListValue
    /\ Len(list.items) < MaxItems
    /\ \E v \in Declarations : list' = push(list, v)
    /\ op' = "push"
    /\ linput' = <<>>
    /\ out' = NoOut
    /\ UNCHANGED <<pc, input, pos, attributes, status, errs, lkind>>

Pop ==
    /\ ListValue
    /\ list' = pop(list)
    /\ op' = "pop"
    /\ linput' = <<>>
    /\ out' = NoOut
    /\ UNCHANGED <<pc, input, pos, attributes, status, errs, lkind>>

Clear ==
    /\ ListValue
    /\ list' = clear(list)
    /\ op' = "clear"
    /\ linput' = <<>>
    /\ out' = NoOut
    /\ UNCHANGED <<pc, input, pos, attributes, status, errs, lkind>>

Eip712Signature ==
    /\ ListValue
    /\ \E name \in SigNames :
         out' = [fn |-> "eip712_signature", name |-> name, val |-> eip712_signature(list, name)]
    /\ UNCHANGED <<pc, op, input, pos, attributes, status, errs, lkind, linput, list>>

Next ==
    \/ CallAttributesParse
    \/ ParseLoop
    \/ CallAttributeParse
    \/ HasOverride
    \/ HasModifier
    \/ Convert
    \/ CallParameterListParse
    \/ CallFieldListParse
    \/ New
    \/ FromIter
    \/ Push
    \/ Pop
    \/ Clear
    \/ Eip712Signature

Spec == Init /\ [][Next]_vars

TypeOK ==
    /\ pc \in {"idle", "loop", "done"}
    /\ status \in {"none", "ok", "err"}
    /\ pos \in 1..(MaxTokens + 1)


\* ================================================================= claims
AttrsParsed == op = "FunctionAttributes::parse" /\ pc = "done"

\* the grammar of an attribute text, read off the token stream
IsHead(in, i) == in[i].k = "ident" /\ in[i].v # "returns"
IsModifierHead(in, i) ==
    IsHead(in, i) /\ in[i].v \notin Visibilities \cup Mutabilities \cup Markers
IsArgs(in, i) ==
    /\ i > 1
    /\ in[i].k = "paren"
    /\ (IsModifierHead(in, i - 1) \/ in[i - 1] = Tok("ident", "override", <<>>))
Category(tok) ==
    IF tok.v \in Visibilities THEN <<"Visibility", "">>
    ELSE IF tok.v \in Mutabilities THEN <<"Mutability", "">>
    ELSE IF tok.v = "virtual" THEN <<"Virtual", "">>
    ELSE IF tok.v = "override" THEN <<"Override", "">>
    ELSE IF tok.v = "immutable" THEN <<"Immutable", "">>
    ELSE <<"Modifier", tok.v>>
Conflict(in, i, j) == IsHead(in, i) /\ IsHead(in, j) /\ Category(in[i]) = Category(in[j])
AttrsOnly(in, t) == \A i \in 1..(t - 1) : IsHead(in, i) \/ IsArgs(in, i)
TermAt(in, t) == t = Len(in) + 1 \/ (t \in 1..Len(in) /\ in[t] \in {Returns, Semi, Brace})
ArgsOf(in, i) == IF i + 1 <= Len(in) /\ IsArgs(in, i + 1) THEN in[i + 1].p ELSE <<>>
EndOf(in, j) == IF j + 1 <= Len(in) /\ IsArgs(in, j + 1) THEN j + 2 ELSE j + 1
FirstConflict(in, i, j) ==
    /\ i < j
    /\ AttrsOnly(in, j)
    /\ Conflict(in, i, j)
    /\ \A a, b \in 1..(j - 1) : a < b => ~Conflict(in, a, b)

\* C1: when the attribute text holds a second attribute of an already accepted
\* case (or a modifier of an already accepted name), FunctionAttributes::parse
\* fails with exactly the two entries (new location, "duplicate attribute"),
\* (previous location, "previous declaration is here"), and nothing after the
\* conflicting attribute is parsed.
C1_DuplicateFails ==
    AttrsParsed =>
        \A i, j \in 1..Len(input) :
            FirstConflict(input, i, j) =>
                /\ status = "err"
                /\ errs = <<Diag(j, "duplicate attribute"),
                            Diag(i, "previous declaration is here")>>
                /\ pos = EndOf(input, j)
                /\ \A a \in attributes : a.span < j

C1_Witness ==
    /\ AttrsParsed
    /\ status = "err"
    /\ Len(input) = 3
    /\ FirstConflict(input, 1, 2)
    /\ input[1].v = "public" /\ input[2].v = "external"
    /\ IsHead(input, 3)

TwoModifiers(in, j, t) ==
    /\ 1 < j /\ j < t
    /\ TermAt(in, t)
    /\ IsModifierHead(in, 1) /\ IsModifierHead(in, j)
    /\ in[1].v # in[j].v
    /\ \A x \in 1..(t - 1) : x \in {1, j} \/ IsArgs(in, x)

\* C2: an attribute text of two modifiers with different names parses, and the
\* set holds exactly the two of them.
C2_DistinctModifiersKept ==
    AttrsParsed =>
        \A j, t \in 1..(Len(input) + 1) :
            TwoModifiers(input, j, t) =>
                /\ status = "ok"
                /\ Cardinality(attributes) = 2
                /\ has_modifier(attributes, input[1].v)
                /\ has_modifier(attributes, input[j].v)

C2_Witness ==
    /\ AttrsParsed
    /\ status = "ok"
    /\ TwoModifiers(input, 3, 4)
    /\ Cardinality(attributes) = 2

BraceFirst == Len(input) >= 1 /\ input[1] = Brace

\* C3 as stated: FunctionAttributes::parse on a stream that starts with `{`
\* fails with the illegal-body diagnostic.
C3_AttributeSetRejectsBrace ==
    (AttrsParsed /\ BraceFirst) =>
        (status = "err" /\ errs = <<Diag(1, BodyMsg)>>)

\* C3 amended: on a stream that starts with `{`, FunctionAttribute::parse (one
\* attribute) fails with the illegal-body diagnostic and not the generic one,
\* while FunctionAttributes::parse stops at the `{` and returns the empty set.
C3_BraceHandling ==
    (pc = "done" /\ BraceFirst) =>
        /\ op = "FunctionAttribute::parse" =>
              (status = "err" /\ errs = <<Diag(1, BodyMsg)>>)
        /\ op = "FunctionAttributes::parse" =>
              (status = "ok" /\ attributes = {} /\ pos = 1)

C3_Witness ==
    /\ pc = "done"
    /\ op = "FunctionAttribute::parse"
    /\ BraceFirst
    /\ status = "err"

\* a stream of declarations separated by sep, with or without a last sep
Alternates(in, sep, forStruct) ==
    \A i \in 1..Len(in) :
        IF i % 2 = 1 THEN DeclParses(in[i], forStruct) ELSE in[i].k = sep
EntriesOf(in) == [i \in 1..((Len(in) + 1) \div 2) |-> VarDecl(in[2 * i - 1].ty, in[2 * i - 1].name)]
EndsWithSep(in) == Len(in) > 0 /\ Len(in) % 2 = 0

\* C4: FieldList::parse succeeds exactly when at least one field was parsed and
\* the last one is followed by `;`; no field gives the empty-struct diagnostic,
\* a last field without `;` the trailing-semicolon diagnostic.
C4_FieldListParse ==
    (op = "FieldList::parse" /\ pc = "done") =>
        /\ status = "ok" <=> (Alternates(linput, "semi", TRUE) /\ EndsWithSep(linput))
        /\ Len(linput) = 0 => errs = <<Diag(1, EmptyMsg)>>
        /\ (Alternates(linput, "semi", TRUE) /\ Len(linput) % 2 = 1) =>
              errs = <<Diag(Len(linput) + 1, TrailingMsg)>>
        /\ status = "ok" =>
              /\ list.items = EntriesOf(linput)
              /\ Len(list.items) >= 1
              /\ list.trailing

C4_Witness ==
    /\ op = "FieldList::parse" /\ pc = "done"
    /\ status = "err"
    /\ Len(linput) = 3
    /\ errs = <<Diag(4, TrailingMsg)>>

RECURSIVE JoinTypes(_)
JoinTypes(items) ==
    IF Len(items) = 0 THEN <<>>
    ELSE IF Len(items) = 1 THEN TypeText(items[1].ty)
    ELSE TypeText(items[1].ty) \o <<",">> \o JoinTypes(Tail(items))

\* C5: eip712_signature(name) is name, `(`, the type texts in list order with
\* one `,` between neighbours, `)`; `name()` for the empty list.
C5_SignatureExact ==
    out.fn = "eip712_signature" =>
        /\ out.val = out.name \o <<"(">> \o JoinTypes(list.items) \o <<")">>
        /\ Len(list.items) = 0 => out.val = out.name \o <<"(", ")">>
        /\ SubSeq(out.val, 1, Len(out.name)) = out.name
        /\ (out.name = <<"f">> /\ Len(list.items) = 2
              /\ list.items[1].ty = Uint256 /\ list.items[2].ty = Bool) =>
              out.val = <<"f", "(", "u", "i", "n", "t", "2", "5", "6", ",",
                          "b", "o", "o", "l", ")">>

C5_Witness ==
    /\ out.fn = "eip712_signature"
    /\ out.name = <<"f">>
    /\ Len(list.items) = 2
    /\ list.items[1].ty = Uint256 /\ list.items[2].ty = Bool
    /\ Len(out.val) = 15

\* C6: ParameterList::parse accepts the empty stream and every stream of
\* declarations separated by single commas, with or without a last comma, and
\* returns the declarations in source order.
C6_ParameterListParse ==
    (op = "ParameterList::parse" /\ pc = "done" /\ Alternates(linput, "comma", FALSE)) =>
        /\ status = "ok"
        /\ list.items = EntriesOf(linput)
        /\ list.trailing = EndsWithSep(linput)

C6_Witness ==
    /\ op = "ParameterList::parse" /\ pc = "done"
    /\ Alternates(linput, "comma", FALSE)
    /\ Len(linput) = 4
    /\ Len(list.items) = 2

FieldListInvariants == Len(list.items) >= 1 /\ list.trailing

\* C7 as stated: every FieldList value, however obtained, has at least one
\* field and a separator after the last one.
C7_FieldListAlwaysValid ==
    (ListValue /\ lkind = "semi") => FieldListInvariants

\* C7 amended: a FieldList as returned by a successful parse has at least one
\* field and a separator after the last one; new/Default give the empty list.
C7_ParsedFieldListValid ==
    (ListValue /\ lkind = "semi") =>
        /\ op = "FieldList::parse" => FieldListInvariants
        /\ op = "new" => Len(list.items) = 0

C7_Witness ==
    /\ ListValue /\ lkind = "semi"
    /\ op = "FieldList::parse"
    /\ Len(list.items) = 2

Targets(attr) == {attr.paths[i] : i \in 1..Len(attr.paths)}

\* C8: has_override(None) holds iff the set has an Override; has_override(p)
\* iff it has an Override whose explicit targets contain p; has_modifier
\* likewise on the modifier name.
C8_HasOverrideModifier ==
    /\ out.fn = "has_override" =>
          out.val = IF out.path = None
                    THEN \E a \in attributes : a.kind = "Override"
                    ELSE \E a \in attributes : a.kind = "Override" /\ out.path \in Targets(a)
    /\ out.fn = "has_modifier" =>
          out.val = IF out.path = None
                    THEN \E a \in attributes : a.kind = "Modifier"
                    ELSE \E a \in attributes : a.kind = "Modifier" /\ a.val = out.path

C8_Witness ==
    /\ out.fn = "has_override"
    /\ out.path # None
    /\ \E a \in attributes : a.kind = "Override" /\ ~a.paren
    /\ out.val = FALSE

\* C9: the conversion maps Visibility, Override and Immutable to themselves and
\* Constant to Immutable at the constant's location; nothing else comes out.
C9_FromVariableAttribute ==
    out.fn = "from" =>
        /\ out.val.kind \in {"Visibility", "Override", "Immutable"}
        /\ out.val.span = out.arg.span
        /\ out.arg.kind = "Visibility" =>
              (out.val.kind = "Visibility" /\ out.val.val = out.arg.val)
        /\ out.arg.kind = "Override" => out.val = out.arg
        /\ out.arg.kind \in {"Immutable", "Constant"} => out.val.kind = "Immutable"

C9_Witness ==
    /\ out.fn = "from"
    /\ out.arg.kind = "Constant"
    /\ out.arg.span = 2
    /\ out.val.kind = "Immutable"

CleanInput(in, t) ==
    /\ TermAt(in, t)
    /\ AttrsOnly(in, t)
    /\ \A a, b \in 1..(t - 1) : a < b => ~Conflict(in, a, b)

\* C10: on non-conflicting attributes followed by a termination condition,
\* FunctionAttributes::parse returns exactly those attributes and leaves the
\* cursor on the terminating token; `returns` is never taken as a modifier.
C10_StopsAtTermination ==
    AttrsParsed =>
        \A t \in 1..(Len(input) + 1) :
            CleanInput(input, t) =>
                /\ status = "ok"
                /\ pos = t
                /\ Cardinality(attributes) = Cardinality({i \in 1..(t - 1) : IsHead(input, i)})
                /\ \A i \in 1..(t - 1) :
                      IsHead(input, i) =>
                          \E a \in attributes :
                              /\ a.span = i
                              /\ a.kind = Category(input[i])[1]
                              /\ a.val = input[i].v
                              /\ a.paths = ArgsOf(input, i)
                /\ \A a \in attributes : input[a.span] # Returns

C10_Witness ==
    /\ AttrsParsed
    /\ status = "ok"
    /\ Len(input) = 3
    /\ CleanInput(input, 3)
    /\ input[3] = Returns
    /\ pos = 3
    /\ Cardinality(attributes) = 2

====
